---- MODULE Spec2Model ----
(***************************************************************************)
(* Verification model of the christmas-tree morphing engine:               *)
(*   - the per-frame transition controller (useFrame callbacks of          *)
(*     FoliageLayer, MorphingInstancedMesh, GiftBox, GoldParticleLayer,    *)
(*     SnowFloor, FallingSnow), driven by the mode prop;                   *)
(*   - the image candidate extractor imageToPoints;                        *)
(*   - the buffers of FoliageLayer and the instanced decoration layers     *)
(*     under a changing imagePoints prop;                                  *)
(*   - App: the interaction mode, the restoration ref and its effect, the  *)
(*     image uploads and the gesture callbacks;                            *)
(*   - GemStar and the trunk, and the instance matrices written by         *)
(*     MorphingInstancedMesh;                                              *)
(*   - HandController: the camera, the gesture window and its callbacks.   *)
(*                                                                         *)
(* Numbers.  The controller scalars are IEEE doubles in the code.  Here a  *)
(* scalar s in [0,1] is the integer s*SCALE, an interpolation factor t in  *)
(* [0,1] is the integer t*TOne, and every product is rounded to nearest.   *)
(* A frame's deltaTime is counted in units of ln(2) seconds and a rate     *)
(* lambda is written as 2*lambda, so that                                  *)
(*      exp(-lambda*deltaTime) = 2^-((2*lambda * delta) / 2)               *)
(* is a power of sqrt(1/2), rounded to the precision of a factor as        *)
(* Math.exp rounds to the precision of a double.                           *)
(***************************************************************************)
EXTENDS Integers, Sequences, FiniteSets, TLC

VARIABLES
    \* ---- scene / transition controller ----
    mode,                 \* the mode prop handed to every layer
    delta,                \* deltaTime of the latest frame
    op,                   \* the latest operation: "init", "frame", "mode",
                          \* "points" (a new imagePoints prop), "scene" (a
                          \* frame of the star and the trunk)
    foliageProgress,      \* FoliageLayer progressRef.current
    foliageImageMix,      \* FoliageLayer imageMixRef.current
    meshProgress,         \* MorphingInstancedMesh progress.current
    meshVisibility,       \* MorphingInstancedMesh visibilityScale.current
    giftProgress,         \* GiftBox progress.current
    giftVisScale,         \* GiftBox visScale.current
    goldProgress,         \* GoldParticleLayer progressRef.current
    snowFloorProgress,    \* SnowFloor progressRef.current
    fallingSnowProgress,  \* FallingSnow progressRef.current
    \* ---- imageToPoints ----
    pc,                   \* "idle", "loading", "handled"
    imgDecodes,           \* does the browser decode imageSource
    imgSize,              \* <<img.width, img.height>>
    ctxAvailable,         \* does canvas.getContext('2d') return a context
    data,                 \* the pixels getImageData returns, row-major
    candidates,           \* the candidates array: x0, y0, x1, y1, ...
    resolveCalls,         \* how many times resolve() was called
    result,               \* the promise's value once resolveCalls > 0
    thrown,               \* an exception escaped the event handler
    warned,               \* console.warn was called
    \* ---- FoliageLayer buffers and the instanced decoration layers ----
    positions,            \* FoliageLayer positions (the scatter buffer)
    treePositions,        \* FoliageLayer treePositions
    aImagePos,            \* the array of the geometry's aImagePos attribute
    particles,            \* MorphingInstancedMesh particles.length per layer
    written,              \* the matrix last written for one instance
    \* ---- App ----
    imagePoints,          \* App state imagePoints, the prop of the layers
    lastNonImageModeRef,  \* lastNonImageModeRef.current
    effectPending,        \* the mode effect of the last commit has not run
    inflight,             \* imageToPoints promises that have not resolved
    submitted,            \* how many extractions were started
    resolved,             \* the promises resolved so far: how many, the
                          \* latest, and the latest with valid points
    isLActive,            \* HandController isLActiveRef.current
    lFrom,                \* the mode the L gesture replaced by IMAGE
    lReleased,            \* the L gesture was released with no other request
    \* ---- GemStar and the trunk ----
    starY,                \* GemStar groupRef.current.position.y
    starScale,            \* GemStar groupRef.current.scale (x = y = z)
    trunkScale,           \* trunkRef.current.scale.y
    \* ---- HandController ----
    isCameraEnabled,      \* App uiState.isCameraEnabled, the enabled prop
    handsRef,             \* handsRef.current is set (onResults registered)
    cameraRef,            \* cameraRef.current: "null", "started", "stopped"
    gestureHistory,       \* gestureHistoryRef.current
    latest,               \* the latest camera result: its classification
                          \* and the callbacks it invoked
    changes,              \* how often the classification changed
    sinceL,               \* results in a row not classified L_SHAPE that
                          \* left the L state active
    lCalls                \* the arguments of the onHandLGesture calls so far

scalars == <<foliageProgress, foliageImageMix, meshProgress, meshVisibility,
             giftProgress, giftVisScale, goldProgress, snowFloorProgress,
             fallingSnowProgress>>
ctlVars == <<mode, delta, op, scalars>>
extVars == <<pc, imgDecodes, imgSize, ctxAvailable, data, candidates,
             resolveCalls, result, thrown, warned>>
folVars == <<positions, treePositions, aImagePos, particles>>
meshVars == <<written>>
appRest == <<lastNonImageModeRef, effectPending, inflight, submitted,
             resolved, isLActive, lFrom, lReleased>>
appVars == <<imagePoints, lastNonImageModeRef,
             effectPending, inflight, submitted, resolved, isLActive,
             lFrom, lReleased>>
starVars == <<starY, starScale, trunkScale>>
handVars == <<isCameraEnabled, handsRef, cameraRef, gestureHistory, latest,
              changes, sinceL, lCalls>>
vars == <<ctlVars, extVars, folVars, meshVars, appVars, starVars, handVars>>

\* ------------------------------------------------------------------------
\* Bounds of the model
\* ------------------------------------------------------------------------
SCALE == 1024        \* fixed-point representation of the scalar 1.0
MaxDelta == 2        \* ordinary frames last 0..MaxDelta units of ln 2 s
HugeDelta == 1000    \* a frame after a long stall (exp underflows to 0)
TargetCount == 1     \* targetCount handed to imageToPoints
width == 2           \* width of the working raster (400 in the source)
MaxImgH == 2         \* source images are 1..MaxImgH pixels high
MaxRasterH == 2      \* working rasters higher than this are left out
MaxExtractions == 2  \* images submitted in one run (the default included)
MaxChanges == 3      \* changes of the classified gesture in one run
StarRange == 16      \* the star is followed while |y|, |scale| <= StarRange

StarUnit == 10       \* fixed-point representation of 1.0 for the star
TOne == 2^18         \* fixed-point representation of the factor t = 1.0
Eps == SCALE \div 1000   \* the epsilon 1e-3 of the convergence property

Modes == {"SCATTERED", "TREE", "IMAGE"}
Deltas == (0..MaxDelta) \cup {HugeDelta}

\* ------------------------------------------------------------------------
\* THREE.MathUtils as called by the layers
\* ------------------------------------------------------------------------
\* a / b rounded to nearest, for a >= 0 and b > 0
RoundDiv(a, b) == (2 * a + b) \div (2 * b)

\* 2^0 and 2^(-1/2) as factors
HalfRoot == <<262144, 185364>>

\* Math.exp(-(n/2) ln 2) as a factor: 2^-(n/2), which is below the precision
\* of the factor (and of 1 - 2^-(n/2) in a double) once n is large
ExpNeg(n) ==
    IF n \div 2 > 18 THEN 0 ELSE HalfRoot[(n % 2) + 1] \div (2^(n \div 2))

\* an interpolation with a slip in its second term: (1 - t) * x + t * x
lerpSlip(x, y, t) == RoundDiv((TOne - t) * x + t * x, TOne)

\* THREE.MathUtils.lerp(x, y, t) = (1 - t) * x + t * y
lerp(x, y, t) == RoundDiv((TOne - t) * x + t * y, TOne)

\* a linear step x + (y - x) * lambda * dt, which overshoots for long frames
dampLinear(x, y, lambda2, dt) == x + (y - x) * lambda2 * dt

\* a smoothing with a minimum step: dt is raised to one unit
dampMinStep(x, y, lambda2, dt) ==
    lerp(x, y, TOne - ExpNeg(lambda2 * (IF dt < 1 THEN 1 ELSE dt)))

\* THREE.MathUtils.damp(x, y, lambda, dt) = lerp(x, y, 1 - exp(-lambda * dt))
damp(x, y, lambda2, dt) == lerp(x, y, TOne - ExpNeg(lambda2 * dt))

\* ------------------------------------------------------------------------
\* Rates (twice the lambda of the source) and targets of each layer
\* ------------------------------------------------------------------------
FoliageProgressRate == 4    \* 2.0
FoliageImageMixRate == 3    \* 1.5
MeshProgressRate == 5       \* 2.5
MeshVisibilityRate == 6     \* 3.0
GiftProgressRate == 4       \* 2
GiftVisRate == 6            \* 3
GoldProgressRate == 4       \* 2.0
SnowFloorRate == 4          \* 2.0
FallingSnowRate == 4        \* 2.0

\* a foliage target that treats IMAGE like SCATTERED
targetProgressTreeOnly(m) == IF m = "TREE" THEN SCALE ELSE 0

\* FoliageLayer: mode === 'SCATTERED' ? 0 : 1
targetProgress(m) == IF m = "SCATTERED" THEN 0 ELSE SCALE
\* FoliageLayer: mode === 'IMAGE' ? 1 : 0
targetImageMix(m) == IF m = "IMAGE" THEN SCALE ELSE 0
\* two-valued layers: mode === 'TREE' ? 1 : 0
target(m) == IF m = "TREE" THEN SCALE ELSE 0
\* decorations: mode === 'IMAGE' ? 0 : 1
targetVis(m) == IF m = "IMAGE" THEN 0 ELSE SCALE

\* useRef(mode === 'TREE' ? 1 : 0) and useRef(mode === 'IMAGE' ? 1 : 0)
InitialProgress(m) == IF m = "TREE" THEN SCALE ELSE 0
InitialImageMix(m) == IF m = "IMAGE" THEN SCALE ELSE 0

\* ------------------------------------------------------------------------
\* FoliageLayer buffers and the instanced decoration layers
\* ------------------------------------------------------------------------
\* const count = PARTICLE_COUNT, the targetCount App hands to imageToPoints
count == TargetCount

\* Float32Array | null: null, or the array that is present
Null == [present |-> FALSE, buf |-> << >>]
Some(b) == [present |-> TRUE, buf |-> b]

\* new Float32Array(n * 3) filled by the useMemo loop.  The values are
\* Math.random() draws in the code; v stands for one draw.
FilledBuffer(n, v) == [i \in 1..(n * 3) |-> v + (i % 3)]

\* an install without the length check
InstallAnyLength(pts, fallback) == IF pts.present THEN pts.buf ELSE fallback

\* the array the effect hands to setAttribute('aImagePos', ...)
dataToUse(pts, fallback) ==
    IF pts.present /\ Len(pts.buf) = count * 3 THEN pts.buf ELSE fallback

\* the instanced decoration layers and their declared instance counts
Layers == {"ambientLights", "redOrnaments", "goldOrnaments", "greenLights"}
InstanceCount ==
    [l \in Layers |->
       CASE l = "ambientLights" -> 1200
         [] l = "redOrnaments" -> 48
         [] l = "goldOrnaments" -> 48
         [] l = "greenLights" -> 96]

\* temp.length after: for (let i = 0; i < cnt; i++) temp.push(...)
generateLights(cnt) == Cardinality(0..(cnt - 1))

\* a generator whose loop starts at 1
generateSurfaceDecorFromOne(cnt) == Cardinality(1..(cnt - 1))

\* temp.length after: for (let i = 0; i < count; i++) temp.push(...)
generateSurfaceDecor(cnt) == Cardinality(0..(cnt - 1))

redOrnamentsData == generateSurfaceDecor(48)
goldOrnamentsData == generateSurfaceDecor(48)
greenLightsData == generateSurfaceDecor(96)

\* particles = generateData(count): the ornaments' generateData ignores count
generateData(l, cnt) ==
    CASE l = "ambientLights" -> generateLights(cnt)
      [] l = "redOrnaments" -> redOrnamentsData
      [] l = "goldOrnaments" -> goldOrnamentsData
      [] l = "greenLights" -> greenLightsData

\* the layers after mount: aImagePos is declared with array={treePositions}
\* and the effect, run with imagePoints = null, installs the same array
FoliageMounted ==
    /\ positions = FilledBuffer(count, 12 * SCALE)
    /\ treePositions = FilledBuffer(count, 3 * SCALE)
    /\ aImagePos = dataToUse(Null, FilledBuffer(count, 3 * SCALE))
    /\ particles = [l \in Layers |-> generateData(l, InstanceCount[l])]

\* ------------------------------------------------------------------------
\* App after mount, before any callback
\* ------------------------------------------------------------------------
\* inf: the extractions the mount effect has started, n: their number
AppStarted(inf, n) ==
    /\ imagePoints = Null
    /\ lastNonImageModeRef = "TREE"
    /\ effectPending = FALSE
    /\ inflight = inf
    /\ submitted = n
    /\ resolved = [n |-> 0, id |-> 0, points |-> << >>, overlapped |-> FALSE,
                   valid |-> Null]
    /\ isLActive = FALSE
    /\ lFrom = "none"
    /\ lReleased = FALSE

\* no default image: DEFAULT_IMAGE_SRC is empty or short
AppMounted == AppStarted({}, 0)

\* ------------------------------------------------------------------------
\* MorphingInstancedMesh: the matrix of one instance
\* ------------------------------------------------------------------------
\* One coordinate of the instance's scatterPos and treePos and its base
\* size p.scale, as scalars
ScatterPos == 3 * SCALE
TreePos == SCALE
BaseSize == SCALE \div 4

\* THREE.Vector3.lerpVectors(v1, v2, alpha), one coordinate
lerpVectors(v1, v2, alpha) ==
    IF v2 >= v1 THEN v1 + RoundDiv((v2 - v1) * alpha, SCALE)
    ELSE v1 - RoundDiv((v1 - v2) * alpha, SCALE)

\* a matrix written at full size whatever the visibility
setMatrixAtFullSize(progress, visibility) ==
    [position |-> lerpVectors(ScatterPos, TreePos, progress),
     swing |-> IF progress < SCALE THEN SCALE - progress ELSE 0,
     scale |-> BaseSize]

\* The matrix useFrame writes with setMatrixAt: the position before the
\* secondary motion, the intensity (1 - progress) * floatIntensity that
\* scales the secondary motion (floatIntensity = 1), and the scale
setMatrixAt(progress, visibility) ==
    [position |-> lerpVectors(ScatterPos, TreePos, progress),
     swing |-> IF progress < SCALE THEN SCALE - progress ELSE 0,
     scale |-> RoundDiv(BaseSize * visibility, SCALE)]

\* the matrix useLayoutEffect writes when the mode (or the particles) changed
layoutMatrix(m) ==
    [position |-> IF m = "TREE" THEN TreePos ELSE ScatterPos,
     swing |-> 0,
     scale |-> BaseSize]

\* at mount the layout effect has run once
MeshMounted == written = layoutMatrix("TREE")

\* ------------------------------------------------------------------------
\* imageToPoints: placeholders while the scene specification runs
\* ------------------------------------------------------------------------
ExtractorIdle ==
    /\ pc = "idle"
    /\ imgDecodes = FALSE
    /\ imgSize = <<1, 1>>
    /\ ctxAvailable = FALSE
    /\ data = << >>
    /\ candidates = << >>
    /\ resolveCalls = 0
    /\ result = << >>
    /\ thrown = FALSE
    /\ warned = FALSE

\* ------------------------------------------------------------------------
\* The scene: App mounts with interactionMode 'TREE'
\* ------------------------------------------------------------------------
InitScene ==
    /\ mode = "TREE"
    /\ delta = 0
    /\ op = "init"
    /\ foliageProgress = InitialProgress("TREE")
    /\ foliageImageMix = InitialImageMix("TREE")
    /\ meshProgress = InitialProgress("TREE")
    /\ meshVisibility = SCALE
    /\ giftProgress = InitialProgress("TREE")
    /\ giftVisScale = SCALE
    /\ goldProgress = InitialProgress("TREE")
    /\ snowFloorProgress = InitialProgress("TREE")
    /\ fallingSnowProgress = InitialProgress("TREE")

\* GemStar's group mounts at the origin with scale 1, the trunk with scale 1
StarMounted ==
    /\ starY = 0
    /\ starScale = StarUnit
    /\ trunkScale = SCALE

\* HandController mounts disabled: no Hands object, no Camera, no history
HandMounted ==
    /\ isCameraEnabled = FALSE
    /\ handsRef = FALSE
    /\ cameraRef = "null"
    /\ gestureHistory = << >>
    /\ latest = [gesture |-> "NO_HAND", calls |-> << >>]
    /\ changes = 0
    /\ sinceL = 0
    /\ lCalls = << >>

Init ==
    /\ InitScene /\ ExtractorIdle /\ FoliageMounted /\ MeshMounted
    /\ AppMounted /\ StarMounted /\ HandMounted

\* One rendered frame: every useFrame callback runs with the same delta.
\* The meshRef / groupRef guards of MorphingInstancedMesh and GiftBox pass:
\* the refs are attached at commit, before the first frame.  The four
\* MorphingInstancedMesh instances and the gift boxes each share one rate
\* and one mode, so one scalar stands for all instances of a component.
Frame(d) ==
    /\ delta' = d
    /\ op' = "frame"
    /\ foliageProgress' =
         damp(foliageProgress, targetProgress(mode), FoliageProgressRate, d)
    /\ foliageImageMix' =
         damp(foliageImageMix, targetImageMix(mode), FoliageImageMixRate, d)
    /\ meshProgress' = damp(meshProgress, target(mode), MeshProgressRate, d)
    /\ meshVisibility' =
         damp(meshVisibility, targetVis(mode), MeshVisibilityRate, d)
    /\ giftProgress' = damp(giftProgress, target(mode), GiftProgressRate, d)
    /\ giftVisScale' = damp(giftVisScale, targetVis(mode), GiftVisRate, d)
    /\ goldProgress' = damp(goldProgress, target(mode), GoldProgressRate, d)
    /\ snowFloorProgress' =
         damp(snowFloorProgress, target(mode), SnowFloorRate, d)
    /\ fallingSnowProgress' =
         damp(fallingSnowProgress, target(mode), FallingSnowRate, d)
    /\ written' = setMatrixAt(meshProgress', meshVisibility')
    /\ UNCHANGED <<mode, extVars, folVars, appVars, starVars, handVars>>

\* a mode change that remounts the layers: every ref is initialised again
SetModeRemount(m) ==
    /\ m # mode
    /\ mode' = m
    /\ op' = "mode"
    /\ foliageProgress' = InitialProgress(m)
    /\ foliageImageMix' = InitialImageMix(m)
    /\ meshProgress' = InitialProgress(m)
    /\ meshVisibility' = SCALE
    /\ giftProgress' = InitialProgress(m)
    /\ giftVisScale' = SCALE
    /\ goldProgress' = InitialProgress(m)
    /\ snowFloorProgress' = InitialProgress(m)
    /\ fallingSnowProgress' = InitialProgress(m)
    /\ written' = layoutMatrix(m)
    /\ UNCHANGED <<delta, extVars, folVars, appVars, starVars, handVars>>

\* The mode prop changes (a re-render); the refs keep their values.
SetMode(m) ==
    /\ m # mode
    /\ mode' = m
    /\ op' = "mode"
    /\ written' = layoutMatrix(m)
    /\ UNCHANGED <<delta, scalars, extVars, folVars, appVars, starVars,
                   handVars>>

AnyFrame == \E d \in Deltas : Frame(d)
PositiveFrame == \E d \in Deltas \ {0} : Frame(d)
AnySetMode == \E m \in Modes : SetMode(m)

Next == AnyFrame \/ AnySetMode

Spec == Init /\ [][Next]_vars

\* Frames keep coming and time advances: deltaTime sums grow without bound.
SpecFair == Spec /\ WF_vars(PositiveFrame)

\* ------------------------------------------------------------------------
\* Frames whose deltaTime is not finite
\* ------------------------------------------------------------------------
\* codes of the doubles NaN and +Infinity (no other number of the model is
\* negative)
NaN == 0 - 1
Infinity == 0 - 2

\* THREE.MathUtils.damp in IEEE arithmetic: Math.exp(NaN) is NaN and every
\* operation on NaN is NaN; Math.exp(-Infinity) is 0, so t = 1 and
\* lerp = 0 * x + 1 * y = y for a finite x
dampIEEE(x, y, lambda2, dt) ==
    IF x = NaN \/ dt = NaN THEN NaN
    ELSE IF dt = Infinity THEN y
    ELSE damp(x, y, lambda2, dt)

\* setMatrixAt in IEEE arithmetic: NaN < 1 is false
setMatrixAtIEEE(progress, visibility) ==
    [position |-> IF progress = NaN THEN NaN
                  ELSE lerpVectors(ScatterPos, TreePos, progress),
     swing |-> IF progress # NaN /\ progress < SCALE THEN SCALE - progress
               ELSE 0,
     scale |-> IF visibility = NaN THEN NaN
               ELSE RoundDiv(BaseSize * visibility, SCALE)]

\* One rendered frame whose delta may be NaN or Infinity: no useFrame
\* callback tests its delta before it calls damp.
FrameIEEE(d) ==
    /\ delta' = d
    /\ op' = "frame"
    /\ foliageProgress' =
         dampIEEE(foliageProgress, targetProgress(mode), FoliageProgressRate, d)
    /\ foliageImageMix' =
         dampIEEE(foliageImageMix, targetImageMix(mode), FoliageImageMixRate, d)
    /\ meshProgress' = dampIEEE(meshProgress, target(mode), MeshProgressRate, d)
    /\ meshVisibility' =
         dampIEEE(meshVisibility, targetVis(mode), MeshVisibilityRate, d)
    /\ giftProgress' = dampIEEE(giftProgress, target(mode), GiftProgressRate, d)
    /\ giftVisScale' = dampIEEE(giftVisScale, targetVis(mode), GiftVisRate, d)
    /\ goldProgress' = dampIEEE(goldProgress, target(mode), GoldProgressRate, d)
    /\ snowFloorProgress' =
         dampIEEE(snowFloorProgress, target(mode), SnowFloorRate, d)
    /\ fallingSnowProgress' =
         dampIEEE(fallingSnowProgress, target(mode), FallingSnowRate, d)
    /\ written' = setMatrixAtIEEE(meshProgress', meshVisibility')
    /\ UNCHANGED <<mode, extVars, folVars, appVars, starVars, handVars>>

AnyFrameIEEE == \E d \in Deltas \cup {NaN, Infinity} : FrameIEEE(d)

NextIEEE == AnyFrameIEEE \/ AnySetMode

SpecIEEE == Init /\ [][NextIEEE]_vars

\* ------------------------------------------------------------------------
\* imageToPoints(imageSource, targetCount)
\* ------------------------------------------------------------------------
\* Pixels are <<R, G, B, A>>.  Luminances are kept in thousandths, which
\* makes 0.299 R + 0.587 G + 0.114 B exact.
Cyan == <<0, 255, 255, 255>>         \* luminance 178.755: dark
Yellow == <<255, 255, 0, 255>>       \* luminance 225.93: bright
Pale == <<245, 245, 245, 255>>       \* luminance 245
White == <<255, 255, 255, 255>>      \* luminance 255
Clear == <<0, 0, 0, 49>>             \* black, alpha just below the threshold
Palette == {Cyan, Yellow, Pale, White, Clear}

\* Math.random() in thousandths, for the depth jitter
Randoms == {0, 500, 990}

\* const height = Math.floor(width * (img.height / img.width)); for the
\* sizes tried here the double product equals the exact quotient
Height(size) == (width * size[2]) \div size[1]

\* the source images tried: every width up to one that floors the raster
\* height to 0, heights 1..MaxImgH
ImgSizes ==
    {sz \in (1..(width + 1)) \X (1..MaxImgH) : Height(sz) <= MaxRasterH}

\* what ctx.getImageData(0, 0, width, height) can return
Rasters(height) == [1..(width * height) -> Palette]

\* new Float32Array(n * 3) filled with the vertical offset at every y
OffsetBuffer(n) == [i \in 1..(3 * n) |-> IF i % 3 = 2 THEN 2000 * width ELSE 0]

\* new Float32Array(n * 3): all zeros
ZeroBuffer(n) == [i \in 1..(3 * n) |-> 0]

\* 0.299 * data[idx] + 0.587 * data[idx+1] + 0.114 * data[idx+2]
Lum(p) == 299 * p[1] + 587 * p[2] + 114 * p[3]

InRaster(x, y, height) == ~(x < 0 \/ x >= width \/ y < 0 \/ y >= height)

\* getLum(x, y)
getLum(x, y, d, height) ==
    IF ~InRaster(x, y, height) THEN 255000 ELSE Lum(d[y * width + x + 1])

\* getAlpha(x, y)
getAlpha(x, y, d, height) ==
    IF ~InRaster(x, y, height) THEN 0 ELSE d[y * width + x + 1][4]

Abs(v) == IF v < 0 THEN -v ELSE v

\* no alpha test at all
TransparentNever(alpha) == FALSE

\* if (alpha < 50) continue
Transparent(alpha) == alpha < 50

\* const isDark = lum < 180
isDark(lum) == lum < 180000

\* the edge test against the right neighbour only
isEdgeRightOnly(lum, rightLum, bottomLum) == Abs(lum - rightLum) > 15000

\* const isEdge = |lum - rightLum| > 15 || |lum - bottomLum| > 15
isEdge(lum, rightLum, bottomLum) ==
    Abs(lum - rightLum) > 15000 \/ Abs(lum - bottomLum) > 15000

\* the body of the pixel loop: does (x, y) get pushed
IsCandidate(x, y, d, height) ==
    LET lum == getLum(x, y, d, height)
        alpha == getAlpha(x, y, d, height)
    IN  /\ ~Transparent(alpha)
        /\ \/ isDark(lum)
           \/ isEdge(lum, getLum(x + 1, y, d, height),
                     getLum(x, y + 1, d, height))

\* the pixel loop: y outer, x inner, candidates.push(x, y)
Scan(d, height) ==
    LET order == [i \in 1..(width * height) |-> i - 1]
        hit(i) == IsCandidate(i % width, i \div width, d, height)
        hits == SelectSeq(order, hit)
    IN  [k \in 1..(2 * Len(hits)) |->
            IF k % 2 = 1 THEN hits[(k + 1) \div 2] % width
                         ELSE hits[k \div 2] \div width]

\* One output point, in units of 1/(1000 * width):
\*   nx * scale, -ny * scale * aspectRatio + 2.0, (Math.random() - 0.5) * 0.1
Point(px, py, r, height) ==
    << (2 * px - width) * 8000,
       (height - 2 * py) * 8000 + 2000 * width,
       ((r - 500) \div 10) * width >>

\* the sampling loop: pick[i] is Math.floor(Math.random() * (length / 2)),
\* rnd[i] the second Math.random() of iteration i
Sample(cands, pick, rnd, height) ==
    [k \in 1..(3 * TargetCount) |->
        LET i == (k - 1) \div 3
            index == pick[i + 1] * 2
        IN  Point(cands[index + 1], cands[index + 2], rnd[i + 1],
                  height)[((k - 1) % 3) + 1]]

\* resolve(value): only the first call settles the promise
Resolve(value) ==
    /\ resolveCalls' = resolveCalls + 1
    /\ result' = IF resolveCalls = 0 THEN value ELSE result

\* the call: new Promise, new Image, img.src = imageSource
ImageToPoints ==
    /\ pc = "idle"
    /\ pc' = "loading"
    /\ \E dec \in BOOLEAN, sz \in ImgSizes, ctx \in BOOLEAN :
         /\ imgDecodes' = dec
         /\ imgSize' = IF dec THEN sz ELSE <<1, 1>>
         /\ ctxAvailable' = (dec /\ ctx)
         /\ \E d \in Rasters(IF dec /\ ctx THEN Height(sz) ELSE 0) : data' = d
    /\ UNCHANGED <<candidates, resolveCalls, result, thrown, warned, ctlVars,
                   folVars, appVars, starVars, handVars, written>>

\* img.onerror
ImgOnError ==
    /\ pc = "loading"
    /\ ~imgDecodes
    /\ Resolve(ZeroBuffer(TargetCount))
    /\ pc' = "handled"
    /\ UNCHANGED <<imgDecodes, imgSize, ctxAvailable, data, candidates,
                   thrown, warned, ctlVars,
                   folVars, appVars, starVars, handVars, written>>

\* img.onload
ImgOnLoad ==
    /\ pc = "loading"
    /\ imgDecodes
    /\ pc' = "handled"
    /\ LET height == Height(imgSize)
           cands == Scan(data, height)
       IN  \/ /\ ~ctxAvailable                       \* if (!ctx)
              /\ Resolve(ZeroBuffer(TargetCount))
              /\ UNCHANGED <<candidates, thrown, warned>>
           \/ /\ ctxAvailable
              /\ height = 0        \* getImageData throws IndexSizeError
              /\ thrown' = TRUE
              /\ UNCHANGED <<candidates, resolveCalls, result, warned>>
           \/ /\ ctxAvailable
              /\ height > 0
              /\ candidates' = cands
              /\ Len(cands) = 0                      \* candidates.length === 0
              /\ warned' = TRUE
              /\ Resolve(ZeroBuffer(TargetCount))
              /\ UNCHANGED thrown
           \/ /\ ctxAvailable
              /\ height > 0
              /\ candidates' = cands
              /\ Len(cands) # 0
              /\ \E pick \in [1..TargetCount -> 0..((Len(cands) \div 2) - 1)],
                    rnd \in [1..TargetCount -> Randoms] :
                   Resolve(Sample(cands, pick, rnd, height))
              /\ UNCHANGED <<thrown, warned>>
    /\ UNCHANGED <<imgDecodes, imgSize, ctxAvailable, data, ctlVars,
                   folVars, appVars, starVars, handVars, written>>

NextExtract == ImageToPoints \/ ImgOnLoad \/ ImgOnError

SpecExtract == Init /\ [][NextExtract]_vars

\* ------------------------------------------------------------------------
\* The layers under a changing imagePoints prop
\* ------------------------------------------------------------------------
\* the point sets a parent may hand down: none, two of the expected length,
\* and sets that are one point short, one value long and one point long
PointSets ==
    {Null} \cup
    {Some([i \in 1..n |-> v]) :
       n \in {(count - 1) * 3, count * 3, count * 3 + 1, (count + 1) * 3},
       v \in {1000, 2000}}

\* GoldSpiralTree renders with a new imagePoints prop.  Its inline
\* generateData props are new functions, so the ornaments' useMemo runs
\* again; FoliageLayer's effect runs because imagePoints changed
\* (geometryRef is attached since the mount).
SupplyImagePoints(pts) ==
    /\ pts # imagePoints
    /\ imagePoints' = pts
    /\ op' = "points"
    /\ aImagePos' = dataToUse(pts, treePositions)
    /\ particles' = [l \in Layers |-> generateData(l, InstanceCount[l])]
    /\ UNCHANGED <<mode, delta, scalars, positions, treePositions, extVars,
                   appRest, starVars, written, handVars>>

AnySupply == \E pts \in PointSets : SupplyImagePoints(pts)

NextFoliage == AnyFrame \/ AnySetMode \/ AnySupply

SpecFoliage == Init /\ [][NextFoliage]_vars

\* ------------------------------------------------------------------------
\* App: interaction mode, image point set, gesture callbacks
\* ------------------------------------------------------------------------
\* mode is the committed uiState.interactionMode.  A callback's setState
\* calls are rendered and committed together before the next callback
\* runs; the effect of a commit runs later, at the latest when the next
\* render starts.

\* Images a user may submit (or the default image), one raster row high.
\* Ink in the first column, ink in the second column behind a transparent
\* pixel, a white page, a file that does not decode, and an image so wide
\* that the working raster has no row.
InkLeft ==
    [decodes |-> TRUE, size |-> <<width, 1>>,
     pixels |-> [i \in 1..width |-> IF i = 1 THEN Cyan ELSE White]]
InkRight ==
    [decodes |-> TRUE, size |-> <<width, 1>>,
     pixels |-> [i \in 1..width |->
                   IF i = 1 THEN Clear ELSE IF i = 2 THEN Cyan ELSE White]]
Blank ==
    [decodes |-> TRUE, size |-> <<width, 1>>,
     pixels |-> [i \in 1..width |-> White]]
Broken == [decodes |-> FALSE, size |-> <<1, 1>>, pixels |-> << >>]
Thin == [decodes |-> TRUE, size |-> <<width + 1, 1>>, pixels |-> << >>]
Files == {InkLeft, InkRight, Blank, Broken, Thin}

\* the Math.random() draw (in thousandths) of the z jitter in these runs
Jitter == {990}

\* The buffers the promise of imageToPoints(f, PARTICLE_COUNT) may resolve
\* to (a 2D context is available); none if getImageData throws.
imageToPoints(f) ==
    IF ~f.decodes THEN {ZeroBuffer(count)}
    ELSE LET height == Height(f.size)
             cands == Scan(f.pixels, height)
         IN  IF height = 0 THEN {}
             ELSE IF Len(cands) = 0 THEN {ZeroBuffer(count)}
             ELSE {Sample(cands, pick, rnd, height) :
                     pick \in [1..count -> 0..((Len(cands) \div 2) - 1)],
                     rnd \in [1..count -> Jitter]}

AllZero(buf) == \A i \in DOMAIN buf : buf[i] = 0

\* a validity test that accepts every buffer
hasValidPointsAlways(points) == TRUE

\* the loop over the triples of points: some coordinate is not 0
hasValidPoints(points) == \E i \in DOMAIN points : points[i] # 0

\* the updater functions handed to setUiState, by the callback that makes
\* them, applied to prev.interactionMode; ref is lastNonImageModeRef.current
\* at the time the updater runs
Updaters == {"toggleScatter", "toggleImageMode", "upload", "onHandOpen",
             "onHandClose", "onHandLGesture(true)", "onHandLGesture(false)"}
\* updaters of which the upload's keeps the mode
ApplyUpdaterUploadKeeps(u, prev, ref) ==
    CASE u = "toggleScatter" ->
           IF prev = "SCATTERED" THEN "TREE" ELSE "SCATTERED"
      [] u = "toggleImageMode" -> IF prev = "IMAGE" THEN "TREE" ELSE "IMAGE"
      [] u = "upload" -> prev
      [] u = "onHandOpen" ->
           IF prev # "SCATTERED" /\ prev # "IMAGE" THEN "SCATTERED" ELSE prev
      [] u = "onHandClose" ->
           IF prev # "TREE" /\ prev # "IMAGE" THEN "TREE" ELSE prev
      [] u = "onHandLGesture(true)" ->
           IF prev # "IMAGE" THEN "IMAGE" ELSE prev
      [] u = "onHandLGesture(false)" -> IF prev = "IMAGE" THEN ref ELSE prev

ApplyUpdater(u, prev, ref) ==
    CASE u = "toggleScatter" ->
           IF prev = "SCATTERED" THEN "TREE" ELSE "SCATTERED"
      [] u = "toggleImageMode" -> IF prev = "IMAGE" THEN "TREE" ELSE "IMAGE"
      [] u = "upload" -> "IMAGE"
      [] u = "onHandOpen" ->
           IF prev # "SCATTERED" /\ prev # "IMAGE" THEN "SCATTERED" ELSE prev
      [] u = "onHandClose" ->
           IF prev # "TREE" /\ prev # "IMAGE" THEN "TREE" ELSE prev
      [] u = "onHandLGesture(true)" ->
           IF prev # "IMAGE" THEN "IMAGE" ELSE prev
      [] u = "onHandLGesture(false)" -> IF prev = "IMAGE" THEN ref ELSE prev

\* One updater applied to st.m.  st.from and st.released record, for the
\* restoration property, the mode an L gesture replaced by IMAGE and
\* whether its release was the next mode request.
ApplyOne(st, u, ref) ==
    LET m2 == ApplyUpdater(u, st.m, ref)
    IN  CASE u = "onHandLGesture(true)" ->
               [m |-> m2,
                from |-> IF st.m # "IMAGE" THEN st.m ELSE "none",
                released |-> FALSE]
          [] u = "onHandLGesture(false)" ->
               [m |-> m2,
                from |-> IF st.m = "IMAGE" THEN st.from ELSE "none",
                released |-> st.m = "IMAGE" /\ st.from # "none"]
          [] OTHER -> [m |-> m2, from |-> "none", released |-> FALSE]

RECURSIVE ApplyAll(_, _, _)
ApplyAll(st, q, ref) ==
    IF q = << >> THEN st
    ELSE ApplyAll(ApplyOne(st, Head(q), ref), Tail(q), ref)

\* an effect that records every mode
recordAnyMode(m, ref) == m

\* the effect on [uiState.interactionMode]
recordLastNonImage(m, ref) == IF m # "IMAGE" THEN m ELSE ref

\* a render that leaves a pending effect unrun
refAtRenderStale(pending, m, ref) == ref

\* lastNonImageModeRef.current as the updaters of a render read it: React
\* runs the pending effect of the previous commit before it renders
refAtRender(pending, m, ref) ==
    IF pending THEN recordLastNonImage(m, ref) ELSE ref

\* React renders App for the setState calls of one callback: us are the
\* updaters handed to setUiState, pts the new imagePoints.  If no state
\* changes React bails out.  Otherwise the pending effect runs, the
\* updaters are applied in order, the result is committed and handed to the
\* layers, and the mode effect is scheduled if the mode changed.
Commit(us, pts) ==
    LET ref == refAtRender(effectPending, mode, lastNonImageModeRef)
        st == ApplyAll([m |-> mode, from |-> lFrom, released |-> FALSE],
                       us, ref)
        bail == st.m = mode /\ pts = imagePoints
    IN  /\ lFrom' = st.from
        /\ lReleased' = IF us = << >> THEN lReleased ELSE st.released
        /\ mode' = st.m
        /\ imagePoints' = pts
        /\ lastNonImageModeRef' = IF bail THEN lastNonImageModeRef ELSE ref
        /\ effectPending' = IF bail THEN effectPending ELSE st.m # mode
        /\ aImagePos' = dataToUse(pts, treePositions)
        /\ particles' = [l \in Layers |-> generateData(l, InstanceCount[l])]
        /\ written' = IF st.m # mode THEN layoutMatrix(st.m) ELSE written
        /\ UNCHANGED <<delta, op, scalars, extVars, positions, treePositions,
                     starVars>>

\* Overlay: the scatter button, rendered while the mode is not IMAGE
ToggleScatter ==
    /\ mode # "IMAGE"
    /\ Commit(<<"toggleScatter">>, imagePoints)
    /\ UNCHANGED <<inflight, submitted, resolved, isLActive, handVars>>

\* Overlay: the view image / return button, rendered once an image is loaded
ToggleImageMode ==
    /\ imagePoints.present
    /\ Commit(<<"toggleImageMode">>, imagePoints)
    /\ UNCHANGED <<inflight, submitted, resolved, isLActive, handVars>>

\* HandController: onHandOpen / onHandClose, called while no L is active
OnHandOpen ==
    /\ ~isLActive
    /\ Commit(<<"onHandOpen">>, imagePoints)
    /\ UNCHANGED <<inflight, submitted, resolved, isLActive, handVars>>

OnHandClose ==
    /\ ~isLActive
    /\ Commit(<<"onHandClose">>, imagePoints)
    /\ UNCHANGED <<inflight, submitted, resolved, isLActive, handVars>>

\* HandController: the L gesture becomes active / is released
OnHandLGesture(active) ==
    /\ isLActive # active
    /\ isLActive' = active
    /\ Commit(<<IF active THEN "onHandLGesture(true)"
                ELSE "onHandLGesture(false)">>, imagePoints)
    /\ UNCHANGED <<inflight, submitted, resolved, handVars>>

\* handleImageUpload up to the call of imageToPoints in reader.onload
HandleImageUpload(f) ==
    /\ submitted < MaxExtractions
    /\ submitted' = submitted + 1
    /\ inflight' = inflight \cup
                     {[id |-> submitted + 1, file |-> f, upload |-> TRUE]}
    /\ UNCHANGED <<ctlVars, extVars, folVars, starVars, written,
                   imagePoints,
                   lastNonImageModeRef, effectPending, resolved, isLActive,
                   lFrom, lReleased, handVars>>

\* The promise of extraction e resolves and its .then callback runs; it
\* installs the points if install holds and the points are valid: the
\* upload's callback calls setImagePoints and setUiState, the default
\* image's callback setImagePoints only.
Settle(e, install) ==
    /\ e \in inflight
    /\ inflight' = inflight \ {e}
    /\ \E points \in imageToPoints(e.file) :
         /\ resolved' = [n |-> resolved.n + 1, id |-> e.id,
                         points |-> points,
                         overlapped |-> resolved.overlapped
                                          \/ Cardinality(inflight) > 1,
                         valid |-> IF AllZero(points) THEN resolved.valid
                                   ELSE Some(points)]
         /\ IF install /\ hasValidPoints(points)
            THEN Commit(IF e.upload THEN <<"upload">> ELSE << >>,
                        Some(points))
            ELSE UNCHANGED <<ctlVars, extVars, folVars, starVars, written,
                             imagePoints,
                             lastNonImageModeRef, effectPending, lFrom,
                             lReleased>>
    /\ UNCHANGED <<submitted, isLActive, handVars>>

\* a .then callback that drops the result of a superseded extraction
ThenPointsLatestOnly(e) == Settle(e, e.id = submitted)

\* the .then callbacks of App: no extraction is cancelled or superseded
ThenPoints(e) == Settle(e, TRUE)

\* the effect of the last commit: record the last mode that is not IMAGE
RunEffect ==
    /\ effectPending
    /\ effectPending' = FALSE
    /\ lastNonImageModeRef' = recordLastNonImage(mode, lastNonImageModeRef)
    /\ UNCHANGED <<ctlVars, extVars, folVars, starVars, written,
                   imagePoints, inflight,
                   submitted, resolved, isLActive, lFrom, lReleased,
                   handVars>>

AnyLGesture == \E active \in BOOLEAN : OnHandLGesture(active)
AnyUpload == \E f \in Files : HandleImageUpload(f)
AnyThen == \E e \in inflight : ThenPoints(e)

NextApp ==
    \/ ToggleScatter
    \/ ToggleImageMode
    \/ OnHandOpen
    \/ OnHandClose
    \/ AnyLGesture
    \/ AnyUpload
    \/ AnyThen
    \/ RunEffect

\* the mount effect has started the default image's extraction, if there is
\* a default image
InitApp ==
    /\ InitScene
    /\ ExtractorIdle
    /\ FoliageMounted
    /\ MeshMounted
    /\ StarMounted
    /\ HandMounted
    /\ \/ AppMounted
       \/ \E f \in Files :
            AppStarted({[id |-> 1, file |-> f, upload |-> FALSE]}, 1)

SpecApp == InitApp /\ [][NextApp]_vars

\* ------------------------------------------------------------------------
\* GemStar and the trunk
\* ------------------------------------------------------------------------
\* The star's position and scale are counted in tenths.  Its height in TREE
\* (7.8) and in the other modes (15):
StarTreeY == (78 * StarUnit) \div 10
StarAwayY == 15 * StarUnit

\* The factor delta * 2 the star hands to lerp, in units of 1/AlphaOne: a
\* frame of d units of ln 2 seconds gives 2 * ln 2 * d
AlphaOne == 1024
TwoLn2 == 1420
StarAlpha(d) == TwoLn2 * d

TrunkRate == 6

\* a / b rounded to nearest, for b > 0
RoundDivSigned(a, b) ==
    IF a >= 0 THEN RoundDiv(a, b) ELSE 0 - RoundDiv(0 - a, b)

\* THREE.Vector3.lerp(v, alpha), one component: this.x += (v.x - this.x) * alpha
Vector3Lerp(x, v, alpha) == x + RoundDivSigned((v - x) * alpha, AlphaOne)

starTargetPos(m) == IF m = "TREE" THEN StarTreeY ELSE StarAwayY
starTargetScale(m) == IF m = "IMAGE" THEN 0 ELSE StarUnit
trunkTargetScale(m) == IF m = "TREE" THEN SCALE ELSE 0

\* The useFrame callbacks of GemStar and of the trunk, run with delta d on
\* the values s under mode m.  The damped scalar of the trunk never leaves
\* [0,1], so the exact lerp of the controller applies to it.
SceneStep(s, m, d) ==
    [starY |-> Vector3Lerp(s.starY, starTargetPos(m), StarAlpha(d)),
     starScale |-> Vector3Lerp(s.starScale, starTargetScale(m), StarAlpha(d)),
     trunkScale |-> damp(s.trunkScale, trunkTargetScale(m), TrunkRate, d)]

InStarRange(s) ==
    /\ 0 - StarRange * StarUnit <= s.starY
    /\ s.starY <= StarRange * StarUnit
    /\ 0 - StarRange * StarUnit <= s.starScale
    /\ s.starScale <= StarRange * StarUnit

\* One rendered frame for the star and the trunk.  Frames that take the star
\* out of the modelled range are left out.
SceneFrame(d) ==
    LET now == [starY |-> starY, starScale |-> starScale,
                trunkScale |-> trunkScale]
        next == SceneStep(now, mode, d)
    IN  /\ InStarRange(next)
        /\ delta' = d
        /\ op' = "scene"
        /\ starY' = next.starY
        /\ starScale' = next.starScale
        /\ trunkScale' = next.trunkScale
        /\ UNCHANGED <<mode, scalars, extVars, folVars, appVars, written,
                     handVars>>

AnySceneFrame == \E d \in 0..MaxDelta : SceneFrame(d)

NextStar == AnySceneFrame \/ AnySetMode

SpecStar == Init /\ [][NextStar]_vars

\* ------------------------------------------------------------------------
\* HandController
\* ------------------------------------------------------------------------
\* A camera result either shows no hand or the pose of the first hand: is
\* the thumb tip away from the index knuckle, and which finger tips are
\* above their PIP joint (a finger that is not up is curled: no tip is
\* level with its joint).  The poses of these runs: a fist, one finger, two
\* fingers and the flat hand, each with the thumb in or out.
Fingers == {"index", "middle", "ring", "pinky"}
Poses == [thumbOpen : BOOLEAN,
          up : {{}, {"index"}, {"index", "middle"}, Fingers}]
NoHand == [thumbOpen |-> FALSE, up |-> {"none"}]
Results == Poses \cup {NoHand}

Gestures == {"L_SHAPE", "OPEN", "CLOSED", "NEUTRAL"}

\* currentGesture of a pose
classify(pose) ==
    IF pose.thumbOpen /\ "index" \in pose.up
       /\ pose.up \cap {"middle", "ring", "pinky"} = {}
    THEN "L_SHAPE"
    ELSE IF Cardinality(pose.up) >= 4 THEN "OPEN"
    ELSE IF Cardinality(pose.up) = 0 THEN "CLOSED"
    ELSE "NEUTRAL"

HistoryWindow == 10
LOnThreshold == 6
LOffThreshold == 3
HoldThreshold == 7

\* so many results in a row without an L leave fewer than LOffThreshold
\* L_SHAPE entries in a window to which every result is pushed
ReleaseAfter == HistoryWindow - LOffThreshold + 1

\* history.push(currentGesture); if (history.length > 10) history.shift()
push(history, g) ==
    IF Len(history) + 1 > HistoryWindow THEN Tail(Append(history, g))
    ELSE Append(history, g)

\* history.filter(x => x === g).length
Count(history, g) == Cardinality({i \in DOMAIN history : history[i] = g})

\* an L state without hysteresis: off as soon as the count is not above 6
NextLActiveNoHysteresis(lCount, active) == lCount > LOnThreshold

\* isLActiveRef.current after the L-gesture toggle
NextLActive(lCount, active) ==
    IF lCount > LOnThreshold THEN TRUE
    ELSE IF lCount < LOffThreshold THEN FALSE
    ELSE active

\* open / close callbacks invoked by half a window of the gesture
HoldCallsEager(active, openCount, closedCount) ==
    IF active THEN << >>
    ELSE (IF 2 * openCount >= HistoryWindow THEN <<"onHandOpen">> ELSE << >>)
         \o (IF 2 * closedCount >= HistoryWindow THEN <<"onHandClose">>
             ELSE << >>)

\* the open / close callbacks one result invokes, in order
HoldCalls(active, openCount, closedCount) ==
    IF active THEN << >>
    ELSE (IF openCount > HoldThreshold THEN <<"onHandOpen">> ELSE << >>)
         \o (IF closedCount > HoldThreshold THEN <<"onHandClose">>
             ELSE << >>)

\* onResults(results) for a result classified g ("NO_HAND" if it shows no
\* hand).  Results reach it while the Camera runs and feeds the Hands
\* object.  The setState calls of the callbacks it invokes are rendered
\* together.  The number of times the classification changes in a run is
\* bounded.
Handle(g) ==
    LET history == push(gestureHistory, g)
        active == NextLActive(Count(history, "L_SHAPE"), isLActive)
        lCall == IF active = isLActive THEN << >>
                 ELSE IF active THEN <<"onHandLGesture(true)">>
                 ELSE <<"onHandLGesture(false)">>
        calls == lCall \o HoldCalls(active, Count(history, "OPEN"),
                                    Count(history, "CLOSED"))
    IN  /\ cameraRef = "started"
        /\ handsRef
        /\ g = latest.gesture \/ changes < MaxChanges
        /\ changes' = IF g = latest.gesture THEN changes ELSE changes + 1
        /\ IF g = "NO_HAND"
           THEN /\ latest' = [gesture |-> g, calls |-> << >>]
                /\ sinceL' = IF ~isLActive THEN 0
                             ELSE IF sinceL < ReleaseAfter THEN sinceL + 1
                             ELSE sinceL
                /\ UNCHANGED <<gestureHistory, isLActive, lCalls, ctlVars,
                               extVars, folVars, meshVars, starVars,
                               imagePoints, lastNonImageModeRef,
                               effectPending, lFrom, lReleased>>
           ELSE /\ gestureHistory' = history
                /\ isLActive' = active
                /\ lCalls' = IF active = isLActive THEN lCalls
                             ELSE Append(lCalls, active)
                /\ latest' = [gesture |-> g, calls |-> calls]
                /\ sinceL' = IF g = "L_SHAPE" \/ ~active THEN 0
                             ELSE IF sinceL < ReleaseAfter THEN sinceL + 1
                             ELSE sinceL
                /\ Commit(calls, imagePoints)
        /\ UNCHANGED <<isCameraEnabled, handsRef, cameraRef, inflight,
                       submitted, resolved>>

OnResults(r) == Handle(IF r = NoHand THEN "NO_HAND" ELSE classify(r))

\* cameraRef.current after the effect on [enabled, ...] has run
cameraAfterEffect(enabled, camera) ==
    IF ~enabled THEN (IF camera # "null" THEN "stopped" ELSE camera)
    ELSE IF camera = "null" THEN "started" ELSE camera

\* Overlay.toggleCamera, the render it causes and HandController's effect:
\* disabled, the effect stops the camera and returns; enabled, it creates
\* the Hands object if there is none and creates and starts a Camera if
\* cameraRef.current is empty (the video element is mounted, the MediaPipe
\* scripts are loaded)
ToggleCamera ==
    /\ isCameraEnabled' = ~isCameraEnabled
    /\ handsRef' = (handsRef \/ isCameraEnabled')
    /\ cameraRef' = cameraAfterEffect(isCameraEnabled', cameraRef)
    /\ UNCHANGED <<ctlVars, extVars, folVars, meshVars, appVars, starVars,
                   gestureHistory, latest, changes, sinceL, lCalls>>

AnyResults == \E r \in Results : OnResults(r)

NextHand ==
    \/ AnyResults
    \/ ToggleCamera
    \/ RunEffect
    \/ AnyThen
    \/ ToggleImageMode

\* App has mounted and started the extraction of its default image
InitHand ==
    /\ InitScene /\ ExtractorIdle /\ FoliageMounted /\ MeshMounted
    /\ StarMounted /\ HandMounted
    /\ AppStarted({[id |-> 1, file |-> InkLeft, upload |-> FALSE]}, 1)

SpecHand == InitHand /\ [][NextHand]_vars

\* ------------------------------------------------------------------------
\* Transition controller properties
\* ------------------------------------------------------------------------
InUnit(x) == 0 <= x /\ x <= SCALE
Near(x, y) == x - y <= Eps /\ y - x <= Eps

\* C1: after every update, whatever the interleaving of frames
\* (deltaTime >= 0) and mode changes, every progress, imageMix and
\* visibility scalar lies within [0,1].
ScalarsBounded ==
    /\ InUnit(foliageProgress) /\ InUnit(foliageImageMix)
    /\ InUnit(meshProgress) /\ InUnit(meshVisibility)
    /\ InUnit(giftProgress) /\ InUnit(giftVisScale)
    /\ InUnit(goldProgress) /\ InUnit(snowFloorProgress)
    /\ InUnit(fallingSnowProgress)

\* a frame has moved the scalars strictly inside (0,1) after mode changes
ScalarsInTransit ==
    /\ op = "frame" /\ delta > 0
    /\ 0 < foliageProgress /\ foliageProgress < SCALE
    /\ 0 < foliageImageMix /\ foliageImageMix < SCALE
    /\ 0 < meshVisibility /\ meshVisibility < SCALE
    /\ 0 < giftProgress /\ giftProgress < SCALE

AtTargets(m) ==
    /\ Near(foliageProgress, targetProgress(m))
    /\ Near(foliageImageMix, targetImageMix(m))
    /\ Near(meshProgress, target(m))
    /\ Near(meshVisibility, targetVis(m))
    /\ Near(giftProgress, target(m))
    /\ Near(giftVisScale, targetVis(m))
    /\ Near(goldProgress, target(m))
    /\ Near(snowFloorProgress, target(m))
    /\ Near(fallingSnowProgress, target(m))

\* C2: once the mode is held constant, frames whose deltaTime sums grow
\* without bound bring every scalar within epsilon of its target for that
\* mode and keep it there, from whatever values the earlier history left
\* (so TREE -> SCATTERED -> TREE returns progress to 1).
Convergence ==
    \A m \in Modes : (<>[](mode = m)) => (<>[]AtTargets(m))

\* the scattered configuration has been reached from the formed one
ScatteredReached ==
    /\ mode = "SCATTERED" /\ op = "frame"
    /\ AtTargets("SCATTERED")
    /\ foliageProgress = 0 /\ meshProgress = 0

\* C3: a frame with deltaTime = 0 leaves every scalar exactly unchanged,
\* in every mode and however often it is repeated.
ZeroDeltaIdempotent ==
    [][(op' = "frame" /\ delta' = 0) => UNCHANGED scalars]_vars

\* a zero-delta frame has run while the scalars were away from their targets
ZeroDeltaFrameInTransit ==
    /\ op = "frame" /\ delta = 0
    /\ ~AtTargets(mode)
    /\ 0 < foliageImageMix /\ foliageImageMix < SCALE

\* ------------------------------------------------------------------------
\* Image candidate extractor properties
\* ------------------------------------------------------------------------
Settled == resolveCalls > 0
\* the load handler got as far as the pixel loop
Scanned ==
    pc = "handled" /\ imgDecodes /\ ctxAvailable /\ Height(imgSize) > 0
PixelAt(x, y) == data[y * width + x + 1]
LumAt(x, y) == Lum(PixelAt(x, y))
RasterXY == (0..(width - 1)) \X (0..(Height(imgSize) - 1))
CandidatePairs ==
    {<<candidates[2 * k - 1], candidates[2 * k]>> :
        k \in 1..(Len(candidates) \div 2)}
AllOpaque == \A c \in RasterXY : PixelAt(c[1], c[2])[4] >= 50

\* C4: once the load or error handler has run, the promise is resolved
\* with a buffer of length exactly 3 * targetCount, for every image input.
ResolvesWithLength ==
    pc = "handled" => (Settled /\ Len(result) = 3 * TargetCount)

\* C5: once the load or error handler has run, resolve was called exactly
\* once and no exception escaped the handler.
SettledExactlyOnce ==
    pc = "handled" => (resolveCalls = 1 /\ ~thrown)

\* C6: on every failure path (decode error, no 2D context, no candidates)
\* the resolved buffer is all zeros; a non-zero entry appears only when at
\* least one candidate was found.
FailurePathsResolveZero ==
    (pc = "handled" /\ Settled) =>
        /\ (~imgDecodes \/ ~ctxAvailable \/ Len(candidates) = 0)
               => AllZero(result)
        /\ ~AllZero(result) => Len(candidates) > 0

\* a decodable, drawable image without candidates resolved to zeros
NoCandidatesResolved ==
    /\ Scanned /\ Len(candidates) = 0 /\ warned
    /\ resolveCalls = 1 /\ AllZero(result) /\ Len(result) = 3 * TargetCount

\* C7: a pixel with alpha below 50 is never a candidate, whatever its
\* colour and neighbours; an all-transparent raster has no candidates and
\* resolves to the all-zero buffer.
TransparentNeverCandidate ==
    Scanned =>
        /\ \A c \in CandidatePairs : PixelAt(c[1], c[2])[4] >= 50
        /\ (\A c \in RasterXY : PixelAt(c[1], c[2])[4] < 50) =>
               (Len(candidates) = 0 /\ Settled /\ AllZero(result))

\* a transparent black pixel next to a white one was skipped while another
\* pixel of the same raster became a candidate
TransparentSkipped ==
    /\ Scanned /\ Height(imgSize) = 2
    /\ PixelAt(0, 0) = Clear /\ PixelAt(1, 0) = White
    /\ <<0, 0>> \notin CandidatePairs
    /\ Len(candidates) > 0

\* C8: a pixel with alpha >= 50 is a candidate iff its luminance is below
\* 180 or differs by more than 15 from the luminance of its right or bottom
\* neighbour, also on the right and bottom borders, where that neighbour is
\* outside the image (and so there is nothing to differ from).
CandidateIffDarkOrEdge ==
    Scanned =>
        \A c \in RasterXY :
            LET x == c[1]
                y == c[2]
            IN  PixelAt(x, y)[4] >= 50 =>
                  (c \in CandidatePairs <=>
                     \/ LumAt(x, y) < 180000
                     \/ /\ x + 1 < width
                        /\ Abs(LumAt(x, y) - LumAt(x + 1, y)) > 15000
                     \/ /\ y + 1 < Height(imgSize)
                        /\ Abs(LumAt(x, y) - LumAt(x, y + 1)) > 15000)

\* C9: a uniformly bright opaque image (one luminance L >= 180 everywhere)
\* yields zero candidates and resolves to the all-zero buffer with a
\* diagnostic.
UniformBrightNoCandidates ==
    (/\ Scanned /\ AllOpaque
     /\ \A c \in RasterXY : /\ LumAt(c[1], c[2]) = LumAt(0, 0)
                            /\ LumAt(c[1], c[2]) >= 180000)
    => (Len(candidates) = 0 /\ warned /\ Settled /\ AllZero(result))

\* an opaque raster of exactly two luminances, both at or above 180 and
\* more than minDiff apart
TwoBrightRegions(minDiff) ==
    /\ Scanned /\ AllOpaque
    /\ \A c \in RasterXY : LumAt(c[1], c[2]) >= 180000
    /\ \E a, b \in {LumAt(c[1], c[2]) : c \in RasterXY} :
          /\ a - b > minDiff
          /\ \A c \in RasterXY : LumAt(c[1], c[2]) \in {a, b}

\* the pixels immediately left of or above a change of luminance are
\* candidates, and so the candidate set is not empty
BoundaryPixelsAreCandidates ==
    /\ \A c \in RasterXY :
          /\ (c[1] + 1 < width /\ LumAt(c[1], c[2]) # LumAt(c[1] + 1, c[2]))
                => c \in CandidatePairs
          /\ (/\ c[2] + 1 < Height(imgSize)
              /\ LumAt(c[1], c[2]) # LumAt(c[1], c[2] + 1))
                => c \in CandidatePairs
    /\ Len(candidates) > 0

\* C10 as stated: two bright regions that differ in luminance at all yield
\* the pixels left of and above the boundary as candidates.
HardBoundaryAnyDifference ==
    TwoBrightRegions(0) => BoundaryPixelsAreCandidates

\* C10: two bright regions whose luminances differ by more than the edge
\* threshold 15 yield the pixels left of and above the boundary as
\* candidates, so the candidate set is not empty.
HardBoundaryYieldsCandidates ==
    TwoBrightRegions(15000) => BoundaryPixelsAreCandidates

\* a pale pixel became a candidate only by differing from the bright
\* pixel to its right
EdgeAgainstRightNeighbour ==
    /\ TwoBrightRegions(15000) /\ Height(imgSize) = 1
    /\ PixelAt(0, 0) = Pale /\ PixelAt(1, 0) = Yellow
    /\ <<0, 0>> \in CandidatePairs

\* ------------------------------------------------------------------------
\* Layer buffer properties
\* ------------------------------------------------------------------------
\* C11: the image-configuration buffer is the supplied point set only if the
\* set is present and its length is exactly 3*N; for an absent set or any
\* other length it is the tree-position buffer, and the next frame can run.
ImageInstalledOnlyIfExactLength ==
    /\ (imagePoints.present /\ Len(imagePoints.buf) = 3 * count)
         => aImagePos = imagePoints.buf
    /\ (~imagePoints.present \/ Len(imagePoints.buf) # 3 * count)
         => aImagePos = treePositions
    /\ ENABLED AnyFrame

\* a frame has run with a point set that is one point short
FrameAfterShortPointSet ==
    /\ op = "frame"
    /\ imagePoints.present
    /\ Len(imagePoints.buf) = 3 * (count - 1)
    /\ aImagePos = treePositions

\* C12: in every reachable state the scatter, tree and image-configuration
\* buffers of the foliage layer have length 3*N, and every instanced
\* decoration layer holds as many particles as its declared instance count.
BuffersAligned ==
    /\ Len(positions) = 3 * count
    /\ Len(treePositions) = 3 * count
    /\ Len(aImagePos) = 3 * count
    /\ \A l \in Layers : particles[l] = InstanceCount[l]

\* a point set that is one point long was supplied after a matching one
LongPointSetSupplied ==
    /\ op = "points"
    /\ imagePoints.present
    /\ Len(imagePoints.buf) = 3 * (count + 1)

\* ------------------------------------------------------------------------
\* Targets, visibility and level triggering
\* ------------------------------------------------------------------------
\* the value x2 lies between x and t
Toward(x, x2, t) == (x <= t /\ x <= x2 /\ x2 <= t) \/ (x >= t /\ t <= x2 /\ x2 <= x)

\* C13: in every frame each two-valued layer moves toward 1 when mode is
\* TREE and toward 0 otherwise, the foliage progress moves toward 0 when
\* mode is SCATTERED and toward 1 otherwise, and the foliage imageMix moves
\* toward 1 exactly when mode is IMAGE; a frame long enough for the
\* exponential to vanish lands on these targets.
TargetsFollowMode ==
    [][op' = "frame" =>
        LET tree == IF mode = "TREE" THEN SCALE ELSE 0
            fol == IF mode = "SCATTERED" THEN 0 ELSE SCALE
            img == IF mode = "IMAGE" THEN SCALE ELSE 0
        IN  /\ Toward(meshProgress, meshProgress', tree)
            /\ Toward(giftProgress, giftProgress', tree)
            /\ Toward(goldProgress, goldProgress', tree)
            /\ Toward(snowFloorProgress, snowFloorProgress', tree)
            /\ Toward(fallingSnowProgress, fallingSnowProgress', tree)
            /\ Toward(foliageProgress, foliageProgress', fol)
            /\ Toward(foliageImageMix, foliageImageMix', img)
            /\ delta' = HugeDelta =>
                 /\ meshProgress' = tree
                 /\ giftProgress' = tree
                 /\ goldProgress' = tree
                 /\ snowFloorProgress' = tree
                 /\ fallingSnowProgress' = tree
                 /\ foliageProgress' = fol
                 /\ foliageImageMix' = img]_vars

\* a long frame in IMAGE mode after the tree was scattered: the foliage is
\* back at progress 1 while the two-valued layers stay at 0
ImageTargetsReached ==
    /\ op = "frame"
    /\ delta = HugeDelta
    /\ mode = "IMAGE"
    /\ foliageProgress = SCALE
    /\ foliageImageMix = SCALE
    /\ meshProgress = 0
    /\ goldProgress = 0

\* The factor by which each decoration layer's mode logic scales what it
\* draws: p.scale * visibilityScale for the instanced layers,
\* scale.setScalar(visScale) for the gift boxes.  The spiral ribbon's
\* gl_PointSize has no such factor.
DecorationLayers == Layers \cup {"spiralRibbon", "giftBoxes"}
Visibility(l) ==
    CASE l \in Layers -> meshVisibility
      [] l = "giftBoxes" -> giftVisScale
      [] l = "spiralRibbon" -> SCALE

\* C14: every decoration layer (ambient lights, ornaments, accent lights,
\* spiral ribbon, gift boxes) has a visibility whose target is 0 exactly when
\* mode is IMAGE: after a frame long enough for the exponential to vanish
\* the layer is invisible in IMAGE mode and at full size otherwise.
DecorationsHideInImage ==
    (op = "frame" /\ delta = HugeDelta) =>
       \A l \in DecorationLayers :
          Visibility(l) = IF mode = "IMAGE" THEN 0 ELSE SCALE

\* the distance of x2 from t is at most that of x
NoFarther(x, x2, t) == Abs(x2 - t) <= Abs(x - t)

\* C15: a mode change by itself changes no controller scalar, and in every
\* frame each scalar's new value is a function of its previous value, the
\* current mode and deltaTime that lies no farther from the current mode's
\* target than the previous value.
LevelTriggered ==
    [][/\ op' = "mode" => UNCHANGED scalars
       /\ op' = "frame" =>
            LET tree == IF mode' = "TREE" THEN SCALE ELSE 0
                fol == IF mode' = "SCATTERED" THEN 0 ELSE SCALE
                img == IF mode' = "IMAGE" THEN SCALE ELSE 0
                vis == IF mode' = "IMAGE" THEN 0 ELSE SCALE
                Step(x, x2, t, rate) ==
                    NoFarther(x, x2, t) /\ x2 = damp(x, t, rate, delta')
            IN  /\ Step(foliageProgress, foliageProgress', fol,
                        FoliageProgressRate)
                /\ Step(foliageImageMix, foliageImageMix', img,
                        FoliageImageMixRate)
                /\ Step(meshProgress, meshProgress', tree, MeshProgressRate)
                /\ Step(meshVisibility, meshVisibility', vis,
                        MeshVisibilityRate)
                /\ Step(giftProgress, giftProgress', tree, GiftProgressRate)
                /\ Step(giftVisScale, giftVisScale', vis, GiftVisRate)
                /\ Step(goldProgress, goldProgress', tree, GoldProgressRate)
                /\ Step(snowFloorProgress, snowFloorProgress', tree,
                        SnowFloorRate)
                /\ Step(fallingSnowProgress, fallingSnowProgress', tree,
                        FallingSnowRate)]_vars

\* the mode has just changed while scalars were between their end values
ModeChangedInTransit ==
    /\ op = "mode"
    /\ 0 < meshProgress /\ meshProgress < SCALE
    /\ 0 < meshVisibility /\ meshVisibility < SCALE
    /\ 0 < foliageImageMix /\ foliageImageMix < SCALE

\* C16: a frame whose deltaTime is NaN or infinite never puts a non-finite
\* value into a controller scalar; the scalars stay within [0,1].
ScalarsStayFinite ==
    \A i \in 1..Len(scalars) : scalars[i] # NaN /\ InUnit(scalars[i])

\* ------------------------------------------------------------------------
\* App properties
\* ------------------------------------------------------------------------
\* C17: in every reachable App state the interaction mode is one of
\* SCATTERED, TREE, IMAGE and the stored last-non-image mode is SCATTERED or
\* TREE, never IMAGE.
ModesWellTyped ==
    /\ mode \in Modes
    /\ lastNonImageModeRef \in {"SCATTERED", "TREE"}

\* IMAGE is shown while SCATTERED is remembered for the restoration
ScatteredRemembered == mode = "IMAGE" /\ lastNonImageModeRef = "SCATTERED"

\* C18: when the L gesture becomes active while the mode is m in
\* {TREE, SCATTERED} the mode becomes IMAGE, and when the gesture is released
\* with no other mode request in between the mode is m again.
LGestureRestoresMode ==
    /\ (lFrom # "none" /\ ~lReleased) => mode = "IMAGE"
    /\ lReleased => mode = lFrom

\* the L gesture replaced SCATTERED by IMAGE while the effect that records
\* SCATTERED had not yet run, and its release has restored SCATTERED
ScatteredRestored ==
    /\ lReleased
    /\ lFrom = "SCATTERED"
    /\ mode = "SCATTERED"
    /\ effectPending

\* two extractions were in flight together and every extraction has
\* resolved
BothResolved ==
    /\ resolved.n >= 2
    /\ resolved.overlapped
    /\ inflight = {}

FailedExtractionChangesNothing ==
    /\ [][(resolved'.n = resolved.n + 1 /\ AllZero(resolved'.points)) =>
            UNCHANGED <<imagePoints, aImagePos, mode, lastNonImageModeRef,
                        effectPending, isLActive,
                        delta, op, scalars>>]_vars
    /\ []((resolved.n > 0 /\ AllZero(resolved.points)) => ENABLED AnyFrame)

\* an upload failed after an earlier image was installed
FailedAfterInstalled ==
    /\ resolved.n = 2
    /\ AllZero(resolved.points)
    /\ imagePoints.present

\* ------------------------------------------------------------------------
\* GemStar and trunk properties
\* ------------------------------------------------------------------------
Between(x, x2, t) == (x <= x2 /\ x2 <= t) \/ (t <= x2 /\ x2 <= x)

\* C21: a frame (deltaTime >= 0) leaves the star's position, the star's
\* hide-scale and the trunk's scale between their previous value and their
\* target, inclusive.
NoOvershoot ==
    [][op' = "scene" =>
         /\ Between(starY, starY', starTargetPos(mode))
         /\ Between(starScale, starScale', starTargetScale(mode))
         /\ Between(trunkScale, trunkScale', trunkTargetScale(mode))]_vars

\* the values a frame of a units followed by one of b units would give
TwoFrames(a, b) ==
    SceneStep(SceneStep([starY |-> starY, starScale |-> starScale,
                         trunkScale |-> trunkScale], mode, a), mode, b)

\* two values that differ by rounding only
Rounding == 2
Same(x, y) == x - y <= Rounding /\ y - x <= Rounding

\* C22: with the mode held, a frame of deltaTime a + b gives the star's
\* hide-scale and position and the trunk's scale the values that a frame of
\* a followed by a frame of b gives, up to the rounding of the three
\* products.
FrameRateIndependent ==
    [][op' = "scene" =>
         \A a \in 0..delta' :
            /\ Same(starY', TwoFrames(a, delta' - a).starY)
            /\ Same(starScale', TwoFrames(a, delta' - a).starScale)
            /\ Same(trunkScale', TwoFrames(a, delta' - a).trunkScale)]_vars

\* the damped scale of the trunk alone passes both tests
TrunkDamped ==
    [][op' = "scene" =>
         /\ Between(trunkScale, trunkScale', trunkTargetScale(mode))
         /\ \A a \in 0..delta' :
              Same(trunkScale', TwoFrames(a, delta' - a).trunkScale)]_vars

\* ------------------------------------------------------------------------
\* Layer ordering
\* ------------------------------------------------------------------------
\* progress.current of each decoration layer: the four instanced layers are
\* instances of MorphingInstancedMesh and run the same update
Progress(l) ==
    CASE l \in Layers -> meshProgress
      [] l = "giftBoxes" -> giftProgress
      [] l = "spiralRibbon" -> goldProgress

Remaining(l) == Abs(Progress(l) - target(mode))

\* C23: after every frame with deltaTime > 0 the ambient lights' progress is
\* strictly closer to its target than the progress of the gift boxes and of
\* the ornament layers, as long as those have not arrived.
StaggeredConvergence ==
    (op = "frame" /\ delta > 0) =>
       \A l \in {"giftBoxes", "redOrnaments", "goldOrnaments"} :
          Remaining(l) > 0 => Remaining("ambientLights") < Remaining(l)

\* the same for the gift boxes alone, whose rate is lower
LightsAheadOfGifts ==
    (op = "frame" /\ delta > 0 /\ Remaining("giftBoxes") > 0) =>
       Remaining("ambientLights") < Remaining("giftBoxes")

\* ------------------------------------------------------------------------
\* Instance matrices
\* ------------------------------------------------------------------------
\* w has the base size times the visibility as its scale and the
\* interpolation of scatterPos and treePos by the progress as its position,
\* moved by a secondary motion of intensity 1 - progress
Current(w, progress, visibility) ==
    /\ w.scale = RoundDiv(BaseSize * visibility, SCALE)
    /\ w.position = lerpVectors(ScatterPos, TreePos, progress)
    /\ w.swing = SCALE - progress

\* C24 as stated: the matrix every frame leaves for the draw that follows
\* it has the scale p.scale * visibilityScale and the position interpolated
\* by progress (with the secondary motion's intensity), and a mode change
\* writes no matrix.
NoRewriteOnModeChange ==
    [][/\ op' = "frame" => Current(written', meshProgress', meshVisibility')
       /\ op' = "mode" => written' = written]_vars

\* C24: the matrix every frame leaves for the draw that follows it has the
\* scale p.scale * visibilityScale and the position interpolated by
\* progress (with the secondary motion's intensity); a mode change writes
\* the new mode's end position at full size, and no draw separates that
\* write from the next frame's.
DrawnMatrixCurrent ==
    [][/\ op' = "frame" => Current(written', meshProgress', meshVisibility')
       /\ op' = "mode" => written' = layoutMatrix(mode')]_vars

\* a frame drew the layer half hidden after a change to IMAGE had written
\* it at full size
DrawnWhileHiding ==
    /\ op = "frame"
    /\ mode = "IMAGE"
    /\ 0 < meshVisibility /\ meshVisibility < SCALE
    /\ written.scale < BaseSize
    /\ written # layoutMatrix(mode)

\* ------------------------------------------------------------------------
\* Uploads and the mode
\* ------------------------------------------------------------------------
\* C25: when an extraction resolves with at least one non-zero point its
\* point set is installed; if it was started by an upload the mode becomes
\* IMAGE whatever it was, and if it is the default image's the mode stays,
\* as it does when the default image's extraction fails.
UploadShowsImage ==
    [][\A e \in inflight \ inflight' :
          /\ ~AllZero(resolved'.points) =>
                /\ imagePoints' = Some(resolved'.points)
                /\ e.upload => mode' = "IMAGE"
          /\ ~e.upload => mode' = mode]_vars

\* the default image and an upload have both resolved; the upload came
\* last and found the scene scattered
UploadShownFromScattered ==
    /\ resolved.n = 2
    /\ resolved.id = 2
    /\ inflight = {}
    /\ imagePoints = Some(resolved.points)
    /\ mode = "IMAGE"
    /\ effectPending
    /\ lastNonImageModeRef = "SCATTERED"

\* C26: the mode is IMAGE only when an image point set has been installed,
\* whatever buttons are pressed, images uploaded and gestures made.
ImageModeHasImage == mode = "IMAGE" => imagePoints.present

\* ------------------------------------------------------------------------
\* HandController properties
\* ------------------------------------------------------------------------
\* the latest result invoked callback c
Called(c) == \E i \in DOMAIN latest.calls : latest.calls[i] = c

\* C27: over any sequence of camera results the calls of onHandLGesture
\* alternate true, false, true, ... starting with true: a result calls it
\* with true only if the L state was inactive and more than 6 of the (at
\* most 10) classified frames in the window are L_SHAPE, with false only if
\* the L state was active and fewer than 3 are, and not at all with 3 to 6
\* L_SHAPE frames in the window.
LCallsAlternate ==
    [][(\E g \in Gestures \cup {"NO_HAND"} : Handle(g)) =>
         LET lCount == Count(gestureHistory', "L_SHAPE")
             on == Called("onHandLGesture(true)")'
             off == Called("onHandLGesture(false)")'
         IN  /\ Len(gestureHistory') <= 10
             /\ on => /\ ~isLActive
                      /\ lCount > 6
                      /\ lCalls = << >> \/ ~lCalls[Len(lCalls)]
                      /\ lCalls' = Append(lCalls, TRUE)
             /\ off => /\ isLActive
                       /\ lCount < 3
                       /\ lCalls # << >> /\ lCalls[Len(lCalls)]
                       /\ lCalls' = Append(lCalls, FALSE)
             /\ (3 <= lCount /\ lCount <= 6) => (~on /\ ~off)
             /\ (~on /\ ~off) => lCalls' = lCalls]_vars

\* the L gesture was made, released and made again
LMadeTwice == lCalls = <<TRUE, FALSE, TRUE>>

LReleasedOnceGone == sinceL < ReleaseAfter

\* C30: whenever camera control is enabled (the first time or again) the
\* camera is running.
CameraRunsWhileEnabled == isCameraEnabled => cameraRef = "started"

====
